---- MODULE Spec2Model ----
(***************************************************************************)
(* TeleAI-Poster: the coordination core of main.py (TelegramAIPoster, its  *)
(* two QThread workers) and telegram_utils.py, as a state machine.         *)
(*                                                                         *)
(* Text is a sequence of one-character strings, so that str.strip(), len() *)
(* and the slice content[:N] are computed as Python computes them.  Widget *)
(* labels, titles and status messages are only ever assigned and compared, *)
(* and are kept as strings.                                                *)
(***************************************************************************)
EXTENDS Integers, Sequences, FiniteSets, TLC

VARIABLES
    prompt_input,              \* QTextEdit: the AI prompt
    content_preview,           \* QTextEdit: the editable preview
    ai_api_key_input,          \* QLineEdit (Settings tab)
    telegram_bot_token_input,  \* QLineEdit (Settings tab)
    group_id_input,            \* QLineEdit (Settings tab)
    ai_model_combo,            \* QComboBox: current text
    generate_button,           \* QPushButton.isEnabled()
    post_button,               \* QPushButton.isEnabled()
    status_label,              \* QLabel on the Main tab
    target_display_label,      \* QLabel: configured group, or "Not Set"
    tabs,                      \* QTabWidget.currentIndex()
    ai_thread,                 \* self.ai_thread (AiWorker)
    telegram_thread,           \* self.telegram_thread (TelegramWorker)
    ai_finished,               \* AiWorker.finished emissions queued for the GUI thread
    telegram_finished,         \* TelegramWorker.finished emissions queued for the GUI thread
    ai_delivered,              \* calls of on_ai_content_generated since the last dispatch
    msgbox,                    \* the QMessageBox raised by the last step, if any
    event,                     \* the handler that made the last step
    process,                   \* "running" | "aborted"
    env,                       \* os.environ after load_dotenv()
    remote,                    \* the remote call made by the last step, if any
    ai_tags,                   \* for each queued AiWorker.finished emission, what the
                               \* generation was: "Ok" or "Failed" (not carried by the signal)
    call                       \* arguments of a pending direct call of the publishing client

vars == << prompt_input, content_preview, ai_api_key_input,
           telegram_bot_token_input, group_id_input, ai_model_combo,
           generate_button, post_button, status_label, target_display_label,
           tabs, ai_thread, telegram_thread, ai_finished, telegram_finished,
           ai_delivered, msgbox, event, process, env, remote, ai_tags, call >>

----------------------------------------------------------------------------
(* config.py *)

TELEGRAM_MAX_MESSAGE_LENGTH == 4096

DEFAULT_AI_MODEL == "gpt-3.5-turbo"

DEFAULT_AI_PROMPT ==
  << "G", "e", "n", "e", "r", "a", "t", "e", " ", "a", " ", "c", "o", "n", "c", "i",
     "s", "e", " ", "a", "n", "d", " ", "e", "n", "g", "a", "g", "i", "n", "g", " ",
     "s", "o", "c", "i", "a", "l", " ", "m", "e", "d", "i", "a", " ", "p", "o", "s",
     "t", " ", "a", "b", "o", "u", "t", " ", "r", "e", "c", "e", "n", "t", " ", "a",
     "d", "v", "a", "n", "c", "e", "m", "e", "n", "t", "s", " ", "i", "n", " ", "a",
     "r", "t", "i", "f", "i", "c", "i", "a", "l", " ", "i", "n", "t", "e", "l", "l",
     "i", "g", "e", "n", "c", "e", "." >>

----------------------------------------------------------------------------
(* Bounds of the inputs *)

\* previews are tried with lengths from TELEGRAM_MAX_MESSAGE_LENGTH up to
\* TELEGRAM_MAX_MESSAGE_LENGTH + MaxOver
MaxOver == 1

----------------------------------------------------------------------------
(* Python str operations *)

Whitespace == {" ", "\n"}

IsBlank(s) == \A i \in 1..Len(s) : s[i] \in Whitespace

\* str.strip(): leading and trailing whitespace removed
strip_not(s) == s

strip(s) ==
    IF IsBlank(s) THEN << >>
    ELSE LET first == CHOOSE i \in 1..Len(s) :
                          /\ s[i] \notin Whitespace
                          /\ \A j \in 1..(i - 1) : s[j] \in Whitespace
             last  == CHOOSE i \in 1..Len(s) :
                          /\ s[i] \notin Whitespace
                          /\ \A j \in (i + 1)..Len(s) : s[j] \in Whitespace
         IN  SubSeq(s, first, last)

\* the slice s[:n]
Prefix_tail(s, n) == IF Len(s) <= n THEN s ELSE SubSeq(s, Len(s) - n + 1, Len(s))

Prefix(s, n) == IF Len(s) <= n THEN s ELSE SubSeq(s, 1, n)

\* Python's  sub in s
Contains(sub, s) ==
    \E i \in 0..(Len(s) - Len(sub)) : SubSeq(s, i + 1, i + Len(sub)) = sub

Rep(c, n) == [i \in 1..n |-> c]

----------------------------------------------------------------------------
(* Qt text widgets *)

\* the position of the first c in s at or after position from, 0 if there is none
IndexOf(s, c, from) ==
    IF \E i \in from..Len(s) : s[i] = c
    THEN CHOOSE i \in from..Len(s) : s[i] = c /\ \A j \in from..(i - 1) : s[j] # c
    ELSE 0

\* the element names of Qt's HTML parser that the texts here use
HtmlElements == { << "b" >>, << "i" >> }

\* Qt::mightBeRichText, which QTextEdit.setText uses to guess the format:
\* after leading whitespace, the first line has a "<" that opens a tag whose
\* name is a known element
mightBeRichText(text) ==
    /\ ~IsBlank(text)
    /\ LET start == CHOOSE i \in 1..Len(text) :
                        /\ text[i] \notin Whitespace
                        /\ \A j \in 1..(i - 1) : text[j] \in Whitespace
           lt    == IndexOf(text, "<", start)
           nl    == IndexOf(text, "\n", start)
       IN  /\ lt > 0
           /\ nl = 0 \/ lt < nl
           /\ IndexOf(text, ">", lt) > 0
           /\ SubSeq(text, lt + 1, IndexOf(text, ">", lt) - 1) \in HtmlElements

\* the plain text of an HTML document: the tags are markup, not text
\* (exact for texts without whitespace and entities, as the ones used here)
RECURSIVE toPlainText(_)
toPlainText(html) ==
    IF html = << >> THEN << >>
    ELSE IF Head(html) = "<" /\ IndexOf(html, ">", 1) > 0
         THEN toPlainText(SubSeq(html, IndexOf(html, ">", 1) + 1, Len(html)))
         ELSE << Head(html) >> \o toPlainText(Tail(html))

\* QTextEdit.setText(text), given as the plain text the widget then holds:
\* a text that might be rich text is parsed as HTML, any other is taken as is
setText(text) == IF mightBeRichText(text) THEN toPlainText(text) ELSE text

----------------------------------------------------------------------------
(* Inputs *)

\* what a settings field (or its environment variable) may hold
ApiKeyTexts == { << >>, << " " >>, << " ", "k" >> }
BotTokenTexts == { << >>, << "t", " " >> }
GroupIdTexts == { << >>, << " " >>, << " ", "-", "1" >> }

PromptTexts == { << " ", "\n" >>, << " ", "p", " " >> }

ShortTexts == { << >>, << "\n", " " >>, << " ", "h", "i", "\n" >> }

\* a text of exactly n characters whose last character differs from the rest
LongText(n) == Rep("a", n - 1) \o << "b" >>

LongLens == TELEGRAM_MAX_MESSAGE_LENGTH..(TELEGRAM_MAX_MESSAGE_LENGTH + MaxOver)

LongTexts ==
    { LongText(n) : n \in LongLens }
      \cup { << " " >> \o LongText(TELEGRAM_MAX_MESSAGE_LENGTH) \o << "\n" >> }

\* items of the model combo box
ModelItems == { "gemini-pro", "gemini-1.5-flash-latest", "gemini-1.5-pro-latest" }

ErrorMarker == << "E", "r", "r", "o", "r", ":" >>

\* what generate_ai_content(prompt, api_key, model) may do: return the
\* generated text, return an error message, or raise
GenOutcomes ==
    { [kind |-> "return", tag |-> "Ok",     text |-> << "o", "k" >>],
      [kind |-> "return", tag |-> "Ok",     text |-> << "n", "o", " " >> \o ErrorMarker],
      [kind |-> "return", tag |-> "Ok",     text |-> << "<", "b", ">", "x" >>],
      [kind |-> "return", tag |-> "Failed", text |-> ErrorMarker \o << " ", "x" >>],
      [kind |-> "return", tag |-> "Failed", text |-> << "q", "u", "o", "t", "a" >>],
      [kind |-> "raise",  tag |-> "Failed", text |-> << >>] }

\* SendOutcomes: what bot.send_message may do: return, or raise an exception of one of
\* these classes.  HTTPStatusError is httpx's; NetworkError, BadRequest (a bad
\* chat id or malformed request), InvalidToken (the token was rejected) and
\* TelegramError are telegram.error's, where BadRequest derives from
\* NetworkError and every class derives from TelegramError.
SendOutcomes == { "ok", "HTTPStatusError401", "HTTPStatusError", "NetworkError",
                  "BadRequest", "InvalidToken", "TelegramError", "Exception" }

\* isinstance(e, HTTPStatusError)
IsHTTPStatusError(o) == o \in { "HTTPStatusError401", "HTTPStatusError" }

\* isinstance(e, NetworkError)
IsNetworkError(o) == o \in { "NetworkError", "BadRequest" }

\* isinstance(e, TelegramError)
IsTelegramError(o) == IsNetworkError(o) \/ o \in { "InvalidToken", "TelegramError" }

----------------------------------------------------------------------------
(* Values *)

\* no remote call
NoRemote == [service |-> "none", args |-> << >>, outcome |-> "", printed |-> "",
             network |-> FALSE, ok |-> FALSE]

NoCall == [state |-> "none", bot_token |-> << >>, chat_id |-> << >>, message |-> << >>]

NoBox == [icon |-> "none", title |-> "", text |-> "", reply |-> ""]

Box(icon, title, text) == [icon |-> icon, title |-> title, text |-> text, reply |-> ""]

NoAiThread == [state |-> "none", prompt |-> << >>, api_key |-> << >>, model |-> ""]

NoTelegramThread == [state |-> "none", bot_token |-> << >>, chat_id |-> << >>, message |-> << >>]

\* AiWorker.__init__ followed by start()
AiWorker(prompt, api_key, model) ==
    [state |-> "running", prompt |-> prompt, api_key |-> api_key, model |-> model]

\* TelegramWorker.__init__ followed by start()
TelegramWorker(bot_token, chat_id, message) ==
    [state |-> "running", bot_token |-> bot_token, chat_id |-> chat_id, message |-> message]

TargetLabel(field) ==
    IF strip(field) # << >> THEN << "Configured Group/Channel: " >> \o strip(field)
    ELSE << "Configured Group/Channel: Not Set" >>

----------------------------------------------------------------------------
(* Construction: initUI, then load_settings *)

\* addItems makes the first item current; setCurrentText(DEFAULT_AI_MODEL)
\* selects the default only if it is one of the items
InitialModel == IF DEFAULT_AI_MODEL \in ModelItems THEN DEFAULT_AI_MODEL ELSE "gemini-pro"

\* load_settings: the three fields are set from the environment; the model
\* combo is not loaded
load_settings_swapped(e) ==
    [ai_api_key_input |-> e.GEMINI_API_KEY,
     telegram_bot_token_input |-> e.TELEGRAM_GROUP_ID,
     group_id_input |-> e.TELEGRAM_BOT_TOKEN]

load_settings(e) ==
    [ai_api_key_input |-> e.GEMINI_API_KEY,
     telegram_bot_token_input |-> e.TELEGRAM_BOT_TOKEN,
     group_id_input |-> e.TELEGRAM_GROUP_ID]

\* Keys, Tokens, Groups: what the environment variables GEMINI_API_KEY,
\* TELEGRAM_BOT_TOKEN and TELEGRAM_GROUP_ID may hold
InitOver(Keys, Tokens, Groups) ==
    /\ env \in [GEMINI_API_KEY : Keys, TELEGRAM_BOT_TOKEN : Tokens, TELEGRAM_GROUP_ID : Groups]
    /\ prompt_input = DEFAULT_AI_PROMPT
    /\ content_preview = << >>
    /\ ai_api_key_input = load_settings(env).ai_api_key_input
    /\ telegram_bot_token_input = load_settings(env).telegram_bot_token_input
    /\ group_id_input = load_settings(env).group_id_input
    /\ ai_model_combo = InitialModel
    /\ generate_button = TRUE
    /\ post_button = TRUE
    /\ status_label = "Ready."
    /\ target_display_label = TargetLabel(group_id_input)
    /\ tabs = 0
    /\ ai_thread = NoAiThread
    /\ telegram_thread = NoTelegramThread
    /\ ai_finished = << >>
    /\ telegram_finished = << >>
    /\ ai_delivered = 0
    /\ msgbox = NoBox
    /\ event = "init"
    /\ process = "running"
    /\ remote = NoRemote
    /\ ai_tags = << >>
    /\ call = NoCall

----------------------------------------------------------------------------
(* telegram_utils.py *)

SendResult(ok, network, printed) == [ok |-> ok, network |-> network, printed |-> printed]

\* send_telegram_message without the check of the message
send_telegram_message_noMessageGuard(bot_token, chat_id, message, outcome) ==
    IF bot_token = << >> THEN
        SendResult(FALSE, FALSE, "Telegram bot token is missing.")
    ELSE IF chat_id = << >> THEN
        SendResult(FALSE, FALSE, "Telegram chat ID is missing.")
    ELSE IF outcome = "ok" THEN
        SendResult(TRUE, TRUE, "Message successfully sent to chat_id: {chat_id}")
    ELSE IF IsHTTPStatusError(outcome) /\ outcome = "HTTPStatusError401" THEN
        SendResult(FALSE, TRUE, "Error: Invalid Telegram Bot Token. Status 401 Unauthorized. Error: {e}")
    ELSE IF IsHTTPStatusError(outcome) THEN
        SendResult(FALSE, TRUE, "HTTP Status Error: {e.response.status_code} - {e.response.text}. Error: {e}")
    ELSE IF IsNetworkError(outcome) THEN
        SendResult(FALSE, TRUE, "Network Error: Could not connect to Telegram API. Check your internet connection or bot token. Error: {e}")
    ELSE IF IsTelegramError(outcome) THEN
        SendResult(FALSE, TRUE, "Telegram API Error: {e}. Ensure the bot has permissions in the group/channel and the chat ID is correct.")
    ELSE
        SendResult(FALSE, TRUE, "An unexpected error occurred while sending Telegram message: {e}")

\* send_telegram_message: the guard clauses, then one bot.send_message call
\* whose outcome is `outcome`; every exception is caught and printed
send_telegram_message(bot_token, chat_id, message, outcome) ==
    IF bot_token = << >> THEN
        SendResult(FALSE, FALSE, "Telegram bot token is missing.")
    ELSE IF chat_id = << >> THEN
        SendResult(FALSE, FALSE, "Telegram chat ID is missing.")
    ELSE IF message = << >> THEN
        SendResult(FALSE, FALSE, "Message content is empty.")
    ELSE IF outcome = "ok" THEN
        SendResult(TRUE, TRUE, "Message successfully sent to chat_id: {chat_id}")
    ELSE IF IsHTTPStatusError(outcome) /\ outcome = "HTTPStatusError401" THEN
        SendResult(FALSE, TRUE, "Error: Invalid Telegram Bot Token. Status 401 Unauthorized. Error: {e}")
    ELSE IF IsHTTPStatusError(outcome) THEN
        SendResult(FALSE, TRUE, "HTTP Status Error: {e.response.status_code} - {e.response.text}. Error: {e}")
    ELSE IF IsNetworkError(outcome) THEN
        SendResult(FALSE, TRUE, "Network Error: Could not connect to Telegram API. Check your internet connection or bot token. Error: {e}")
    ELSE IF IsTelegramError(outcome) THEN
        SendResult(FALSE, TRUE, "Telegram API Error: {e}. Ensure the bot has permissions in the group/channel and the chat ID is correct.")
    ELSE
        SendResult(FALSE, TRUE, "An unexpected error occurred while sending Telegram message: {e}")

\* send_telegram_message_sync: runs the coroutine to completion on an event loop
send_telegram_message_sync(bot_token, chat_id, message, outcome) ==
    send_telegram_message(bot_token, chat_id, message, outcome).ok

\* the record of one call of the publishing client
TelegramCall(bot_token, chat_id, message, outcome) ==
    LET r == send_telegram_message(bot_token, chat_id, message, outcome)
    IN  [service |-> "send_telegram_message", args |-> << bot_token, chat_id, message >>,
         outcome |-> IF r.network THEN outcome ELSE "",
         printed |-> r.printed, network |-> r.network,
         ok |-> send_telegram_message_sync(bot_token, chat_id, message, outcome)]

----------------------------------------------------------------------------
(* Worker threads *)

\* The arguments a worker was constructed with are read by its run() only;
\* the model keeps them while the thread runs and drops them when run() ends.

\* AiWorker.run: the result of generate_ai_content is emitted; nothing is
\* caught, so an exception ends run() before the emit.  PyQt5 then either
\* prints the traceback and lets the thread end, or aborts the process.
\* the arguments of generate_ai_content: self.prompt, self.api_key, self.model
AiWorkerArgs_live == << strip(prompt_input), strip(ai_api_key_input), ai_model_combo >>

AiWorkerArgs == << ai_thread.prompt, ai_thread.api_key, ai_thread.model >>

AiWorker_run ==
    /\ process = "running"
    /\ ai_thread.state = "running"
    /\ \E o \in GenOutcomes :
          /\ remote' = [service |-> "generate_ai_content", args |-> AiWorkerArgs,
                        outcome |-> o.kind, printed |-> "", network |-> TRUE,
                        ok |-> (o.kind = "return" /\ o.tag = "Ok")]
          /\ IF o.kind = "return" THEN
                 /\ ai_finished' = Append(ai_finished, o.text)
                 /\ ai_tags' = Append(ai_tags, o.tag)
                 /\ ai_thread' = [NoAiThread EXCEPT !.state = "finished"]
                 /\ process' = process
             ELSE
                 /\ ai_finished' = ai_finished
                 /\ ai_tags' = ai_tags
                 /\ ai_thread' = [NoAiThread EXCEPT !.state = "died"]
                 /\ process' \in {"running", "aborted"}
    /\ msgbox' = NoBox
    /\ event' = "AiWorker.run" /\ UNCHANGED << env, call >>
    /\ UNCHANGED << prompt_input, content_preview, ai_api_key_input,
                    telegram_bot_token_input, group_id_input, ai_model_combo,
                    generate_button, post_button, status_label,
                    target_display_label, tabs, telegram_thread,
                    telegram_finished, ai_delivered >>

FailedToPost == "Failed to post content to Telegram. Check console for details."

\* TelegramWorker.run emitting what the client printed
TelegramWorker_run_printed(Outcomes) ==
    /\ process = "running"
    /\ telegram_thread.state = "running"
    /\ \E o \in Outcomes :
          LET success == send_telegram_message_sync(telegram_thread.bot_token,
                                                    telegram_thread.chat_id,
                                                    telegram_thread.message, o)
          IN  /\ remote' = TelegramCall(telegram_thread.bot_token, telegram_thread.chat_id,
                                        telegram_thread.message, o)
              /\ IF success THEN
                     telegram_finished' = Append(telegram_finished,
                         << TRUE, "Content posted to Telegram successfully!" >>)
                 ELSE
                     telegram_finished' = Append(telegram_finished,
                         << FALSE, remote'.printed >>)
    /\ telegram_thread' = [NoTelegramThread EXCEPT !.state = "finished"]
    /\ msgbox' = NoBox
    /\ event' = "TelegramWorker.run" /\ UNCHANGED << env, call >> /\ ai_tags' = ai_tags
    /\ UNCHANGED << prompt_input, content_preview, ai_api_key_input,
                    telegram_bot_token_input, group_id_input, ai_model_combo,
                    generate_button, post_button, status_label,
                    target_display_label, tabs, ai_thread, ai_finished,
                    ai_delivered, process >>

\* TelegramWorker.run
TelegramWorker_run(Outcomes) ==
    /\ process = "running"
    /\ telegram_thread.state = "running"
    /\ \E o \in Outcomes :
          LET success == send_telegram_message_sync(telegram_thread.bot_token,
                                                    telegram_thread.chat_id,
                                                    telegram_thread.message, o)
          IN  /\ remote' = TelegramCall(telegram_thread.bot_token, telegram_thread.chat_id,
                                        telegram_thread.message, o)
              /\ IF success THEN
                     telegram_finished' = Append(telegram_finished,
                         << TRUE, "Content posted to Telegram successfully!" >>)
                 ELSE
                     telegram_finished' = Append(telegram_finished, << FALSE, FailedToPost >>)
    /\ telegram_thread' = [NoTelegramThread EXCEPT !.state = "finished"]
    /\ msgbox' = NoBox
    /\ event' = "TelegramWorker.run" /\ UNCHANGED << env, call >> /\ ai_tags' = ai_tags
    /\ UNCHANGED << prompt_input, content_preview, ai_api_key_input,
                    telegram_bot_token_input, group_id_input, ai_model_combo,
                    generate_button, post_button, status_label,
                    target_display_label, tabs, ai_thread, ai_finished,
                    ai_delivered, process >>

----------------------------------------------------------------------------
(* TelegramAIPoster: handlers *)

\* save_settings that stores the trimmed group id back into its field
save_settings_normalise ==
    /\ target_display_label' = TargetLabel(group_id_input)
    /\ group_id_input' = strip(group_id_input)
    /\ msgbox' = Box("information", "Settings Saved",
                     "Settings updated in UI. For persistence, manually update your .env file.")
    /\ event' = "save_settings" /\ UNCHANGED << env, call >> /\ remote' = NoRemote /\ ai_tags' = ai_tags
    /\ UNCHANGED << prompt_input, content_preview, ai_api_key_input,
                    telegram_bot_token_input, ai_model_combo,
                    generate_button, post_button, status_label, tabs,
                    ai_thread, telegram_thread, ai_finished, telegram_finished,
                    ai_delivered, process >>

save_settings ==
    /\ target_display_label' = TargetLabel(group_id_input)
    /\ msgbox' = Box("information", "Settings Saved",
                     "Settings updated in UI. For persistence, manually update your .env file.")
    /\ event' = "save_settings" /\ UNCHANGED << env, call >> /\ remote' = NoRemote /\ ai_tags' = ai_tags
    /\ UNCHANGED << prompt_input, content_preview, ai_api_key_input,
                    telegram_bot_token_input, group_id_input, ai_model_combo,
                    generate_button, post_button, status_label, tabs,
                    ai_thread, telegram_thread, ai_finished, telegram_finished,
                    ai_delivered, process >>

\* generate_content that leaves the post button enabled
generate_content_keepPost ==
    LET prompt == strip(prompt_input)
        ai_api_key == strip(ai_api_key_input)
        selected_model == ai_model_combo
    IN  /\ event' = "generate_content" /\ UNCHANGED << env, call >> /\ remote' = NoRemote /\ ai_tags' = ai_tags
        /\ IF prompt = << >> THEN
               /\ msgbox' = Box("warning", "Input Error", "Please enter a prompt for the AI.")
               /\ UNCHANGED << status_label, generate_button, post_button,
                               ai_thread, ai_delivered, tabs >>
           ELSE IF ai_api_key = << >> THEN
               /\ msgbox' = Box("warning", "API Key Missing",
                                "Please enter your Google Gemini API Key in the Settings tab.")
               /\ tabs' = 1
               /\ UNCHANGED << status_label, generate_button, post_button,
                               ai_thread, ai_delivered >>
           ELSE
               /\ status_label' = "Generating AI content... Please wait."
               /\ generate_button' = FALSE
               /\ post_button' = post_button
               /\ ai_thread' = AiWorker(prompt, ai_api_key, selected_model)
               /\ ai_delivered' = 0
               /\ msgbox' = NoBox
               /\ tabs' = tabs
        /\ UNCHANGED << prompt_input, content_preview, ai_api_key_input,
                        telegram_bot_token_input, group_id_input, ai_model_combo,
                        target_display_label, telegram_thread, ai_finished,
                        telegram_finished, process >>

generate_content ==
    LET prompt == strip(prompt_input)
        ai_api_key == strip(ai_api_key_input)
        selected_model == ai_model_combo
    IN  /\ event' = "generate_content" /\ UNCHANGED << env, call >> /\ remote' = NoRemote /\ ai_tags' = ai_tags
        /\ IF prompt = << >> THEN
               /\ msgbox' = Box("warning", "Input Error", "Please enter a prompt for the AI.")
               /\ UNCHANGED << status_label, generate_button, post_button,
                               ai_thread, ai_delivered, tabs >>
           ELSE IF ai_api_key = << >> THEN
               /\ msgbox' = Box("warning", "API Key Missing",
                                "Please enter your Google Gemini API Key in the Settings tab.")
               /\ tabs' = 1
               /\ UNCHANGED << status_label, generate_button, post_button,
                               ai_thread, ai_delivered >>
           ELSE
               /\ status_label' = "Generating AI content... Please wait."
               /\ generate_button' = FALSE
               /\ post_button' = FALSE
               /\ ai_thread' = AiWorker(prompt, ai_api_key, selected_model)
               /\ ai_delivered' = 0
               /\ msgbox' = NoBox
               /\ tabs' = tabs
        /\ UNCHANGED << prompt_input, content_preview, ai_api_key_input,
                        telegram_bot_token_input, group_id_input, ai_model_combo,
                        target_display_label, telegram_thread, ai_finished,
                        telegram_finished, process >>

\* on_ai_content_generated without post_button.setEnabled(True)
on_ai_content_generated_noPost ==
    /\ process = "running"
    /\ ai_finished # << >>
    /\ LET result == Head(ai_finished)
       IN  /\ content_preview' = setText(result)
           /\ status_label' = "AI content generated. Review and post!"
           /\ generate_button' = TRUE
           /\ post_button' = post_button
           /\ msgbox' = IF Contains(ErrorMarker, result)
                        THEN Box("critical", "AI Generation Error", "{result}")
                        ELSE NoBox
    /\ ai_finished' = Tail(ai_finished)
    /\ ai_tags' = Tail(ai_tags)
    /\ ai_delivered' = ai_delivered + 1
    /\ event' = "on_ai_content_generated" /\ UNCHANGED << env, call >> /\ remote' = NoRemote
    /\ UNCHANGED << prompt_input, ai_api_key_input, telegram_bot_token_input,
                    group_id_input, ai_model_combo, target_display_label, tabs,
                    ai_thread, telegram_thread, telegram_finished, process >>

on_ai_content_generated ==
    /\ process = "running"
    /\ ai_finished # << >>
    /\ LET result == Head(ai_finished)
       IN  /\ content_preview' = setText(result)
           /\ status_label' = "AI content generated. Review and post!"
           /\ generate_button' = TRUE
           /\ post_button' = TRUE
           /\ msgbox' = IF Contains(ErrorMarker, result)
                        THEN Box("critical", "AI Generation Error", "{result}")
                        ELSE NoBox
    /\ ai_finished' = Tail(ai_finished)
    /\ ai_tags' = Tail(ai_tags)
    /\ ai_delivered' = ai_delivered + 1
    /\ event' = "on_ai_content_generated" /\ UNCHANGED << env, call >> /\ remote' = NoRemote
    /\ UNCHANGED << prompt_input, ai_api_key_input, telegram_bot_token_input,
                    group_id_input, ai_model_combo, target_display_label, tabs,
                    ai_thread, telegram_thread, telegram_finished, process >>

TooLongBox(reply) ==
    [icon |-> "warning", title |-> "Content Too Long",
     text |-> "The content ({len(content)} characters) exceeds Telegram's message limit ({TELEGRAM_MAX_MESSAGE_LENGTH} characters). It will be truncated. Do you want to proceed?",
     reply |-> reply]

\* len(content) > TELEGRAM_MAX_MESSAGE_LENGTH
ExceedsLimit_ge(content) == Len(content) >= TELEGRAM_MAX_MESSAGE_LENGTH

ExceedsLimit(content) == Len(content) > TELEGRAM_MAX_MESSAGE_LENGTH

\* reply == QMessageBox.No
ReplyIsNo_never(reply) == FALSE

ReplyIsNo(reply) == reply = "No"

\* content[:TELEGRAM_MAX_MESSAGE_LENGTH]
Truncate_not(content) == content

Truncate(content) == Prefix(content, TELEGRAM_MAX_MESSAGE_LENGTH)

\* post_content without the group id check
post_content_noGroupCheck(reply) ==
    LET content == strip(content_preview)
        group_id == strip(group_id_input)
        bot_token == strip(telegram_bot_token_input)
        too_long == ExceedsLimit(content)
        sent == IF too_long THEN Truncate(content) ELSE content
    IN  /\ event' = "post_content" /\ UNCHANGED << env, call >> /\ remote' = NoRemote /\ ai_tags' = ai_tags
        /\ IF content = << >> THEN
               /\ msgbox' = Box("warning", "Input Error",
                                "No content to post. Please generate or type content.")
               /\ UNCHANGED << status_label, generate_button, post_button,
                               telegram_thread, tabs >>
           ELSE IF bot_token = << >> THEN
               /\ msgbox' = Box("warning", "Configuration Error",
                                "Please enter your Telegram Bot Token in the Settings tab.")
               /\ tabs' = 1
               /\ UNCHANGED << status_label, generate_button, post_button,
                               telegram_thread >>
           ELSE IF too_long /\ ReplyIsNo(reply) THEN
               /\ msgbox' = TooLongBox(reply)
               /\ status_label' = "Posting cancelled due to message length."
               /\ UNCHANGED << generate_button, post_button, telegram_thread, tabs >>
           ELSE
               /\ msgbox' = IF too_long THEN TooLongBox(reply) ELSE NoBox
               /\ status_label' = "Posting to Telegram... Please wait."
               /\ generate_button' = FALSE
               /\ post_button' = FALSE
               /\ telegram_thread' = TelegramWorker(bot_token, group_id, sent)
               /\ tabs' = tabs
        /\ UNCHANGED << prompt_input, content_preview, ai_api_key_input,
                        telegram_bot_token_input, group_id_input, ai_model_combo,
                        target_display_label, ai_thread, ai_finished,
                        telegram_finished, ai_delivered, process >>

\* post_content; `reply` is the button the user presses if the length
\* warning is raised
post_content(reply) ==
    LET content == strip(content_preview)
        group_id == strip(group_id_input)
        bot_token == strip(telegram_bot_token_input)
        too_long == ExceedsLimit(content)
        sent == IF too_long THEN Truncate(content) ELSE content
    IN  /\ event' = "post_content" /\ UNCHANGED << env, call >> /\ remote' = NoRemote /\ ai_tags' = ai_tags
        /\ IF content = << >> THEN
               /\ msgbox' = Box("warning", "Input Error",
                                "No content to post. Please generate or type content.")
               /\ UNCHANGED << status_label, generate_button, post_button,
                               telegram_thread, tabs >>
           ELSE IF group_id = << >> THEN
               /\ msgbox' = Box("warning", "Configuration Error",
                                "Please enter the Telegram Group ID in the Settings tab.")
               /\ tabs' = 1
               /\ UNCHANGED << status_label, generate_button, post_button,
                               telegram_thread >>
           ELSE IF bot_token = << >> THEN
               /\ msgbox' = Box("warning", "Configuration Error",
                                "Please enter your Telegram Bot Token in the Settings tab.")
               /\ tabs' = 1
               /\ UNCHANGED << status_label, generate_button, post_button,
                               telegram_thread >>
           ELSE IF too_long /\ ReplyIsNo(reply) THEN
               /\ msgbox' = TooLongBox(reply)
               /\ status_label' = "Posting cancelled due to message length."
               /\ UNCHANGED << generate_button, post_button, telegram_thread, tabs >>
           ELSE
               /\ msgbox' = IF too_long THEN TooLongBox(reply) ELSE NoBox
               /\ status_label' = "Posting to Telegram... Please wait."
               /\ generate_button' = FALSE
               /\ post_button' = FALSE
               /\ telegram_thread' = TelegramWorker(bot_token, group_id, sent)
               /\ tabs' = tabs
        /\ UNCHANGED << prompt_input, content_preview, ai_api_key_input,
                        telegram_bot_token_input, group_id_input, ai_model_combo,
                        target_display_label, ai_thread, ai_finished,
                        telegram_finished, ai_delivered, process >>

\* on_telegram_post_finished that keeps the preview
on_telegram_post_finished_noClear ==
    /\ process = "running"
    /\ telegram_finished # << >>
    /\ LET success == Head(telegram_finished)[1]
           message == Head(telegram_finished)[2]
       IN  IF success THEN
               /\ msgbox' = Box("information", "Success", message)
               /\ status_label' = "Content posted successfully!"
               /\ content_preview' = content_preview
           ELSE
               /\ msgbox' = Box("critical", "Posting Error", message)
               /\ status_label' = "Error posting: {message}"
               /\ content_preview' = content_preview
    /\ generate_button' = TRUE
    /\ post_button' = TRUE
    /\ telegram_finished' = Tail(telegram_finished)
    /\ event' = "on_telegram_post_finished" /\ UNCHANGED << env, call >> /\ remote' = NoRemote /\ ai_tags' = ai_tags
    /\ UNCHANGED << prompt_input, ai_api_key_input, telegram_bot_token_input,
                    group_id_input, ai_model_combo, target_display_label, tabs,
                    ai_thread, telegram_thread, ai_finished, ai_delivered,
                    process >>

\* on_telegram_post_finished that clears the preview after a failure too
on_telegram_post_finished_alwaysClear ==
    /\ process = "running"
    /\ telegram_finished # << >>
    /\ LET success == Head(telegram_finished)[1]
           message == Head(telegram_finished)[2]
       IN  IF success THEN
               /\ msgbox' = Box("information", "Success", message)
               /\ status_label' = "Content posted successfully!"
               /\ content_preview' = << >>
           ELSE
               /\ msgbox' = Box("critical", "Posting Error", message)
               /\ status_label' = "Error posting: {message}"
               /\ content_preview' = << >>
    /\ generate_button' = TRUE
    /\ post_button' = TRUE
    /\ telegram_finished' = Tail(telegram_finished)
    /\ event' = "on_telegram_post_finished" /\ UNCHANGED << env, call >> /\ remote' = NoRemote /\ ai_tags' = ai_tags
    /\ UNCHANGED << prompt_input, ai_api_key_input, telegram_bot_token_input,
                    group_id_input, ai_model_combo, target_display_label, tabs,
                    ai_thread, telegram_thread, ai_finished, ai_delivered,
                    process >>

on_telegram_post_finished ==
    /\ process = "running"
    /\ telegram_finished # << >>
    /\ LET success == Head(telegram_finished)[1]
           message == Head(telegram_finished)[2]
       IN  IF success THEN
               /\ msgbox' = Box("information", "Success", message)
               /\ status_label' = "Content posted successfully!"
               /\ content_preview' = << >>
           ELSE
               /\ msgbox' = Box("critical", "Posting Error", message)
               /\ status_label' = "Error posting: {message}"
               /\ content_preview' = content_preview
    /\ generate_button' = TRUE
    /\ post_button' = TRUE
    /\ telegram_finished' = Tail(telegram_finished)
    /\ event' = "on_telegram_post_finished" /\ UNCHANGED << env, call >> /\ remote' = NoRemote /\ ai_tags' = ai_tags
    /\ UNCHANGED << prompt_input, ai_api_key_input, telegram_bot_token_input,
                    group_id_input, ai_model_combo, target_display_label, tabs,
                    ai_thread, telegram_thread, ai_finished, ai_delivered,
                    process >>

----------------------------------------------------------------------------
(* The user *)

\* the clicked signal of an enabled button
ClickGenerate == process = "running" /\ generate_button /\ generate_content

ClickPost == process = "running" /\ post_button /\ \E reply \in {"Yes", "No"} : post_content(reply)

ClickSaveSettings == process = "running" /\ save_settings

EditPrompt(T) ==
    /\ process = "running"
    /\ \E t \in T : prompt_input' = t
    /\ msgbox' = NoBox /\ event' = "edit" /\ UNCHANGED << env, call >> /\ remote' = NoRemote /\ ai_tags' = ai_tags
    /\ UNCHANGED << content_preview, ai_api_key_input, telegram_bot_token_input,
                    group_id_input, ai_model_combo, generate_button, post_button,
                    status_label, target_display_label, tabs, ai_thread,
                    telegram_thread, ai_finished, telegram_finished,
                    ai_delivered, process >>

EditPreview(T) ==
    /\ process = "running"
    /\ \E t \in T : content_preview' = t
    /\ msgbox' = NoBox /\ event' = "edit" /\ UNCHANGED << env, call >> /\ remote' = NoRemote /\ ai_tags' = ai_tags
    /\ UNCHANGED << prompt_input, ai_api_key_input, telegram_bot_token_input,
                    group_id_input, ai_model_combo, generate_button, post_button,
                    status_label, target_display_label, tabs, ai_thread,
                    telegram_thread, ai_finished, telegram_finished,
                    ai_delivered, process >>

EditApiKey(T) ==
    /\ process = "running"
    /\ \E t \in T : ai_api_key_input' = t
    /\ msgbox' = NoBox /\ event' = "edit" /\ UNCHANGED << env, call >> /\ remote' = NoRemote /\ ai_tags' = ai_tags
    /\ UNCHANGED << prompt_input, content_preview, telegram_bot_token_input,
                    group_id_input, ai_model_combo, generate_button, post_button,
                    status_label, target_display_label, tabs, ai_thread,
                    telegram_thread, ai_finished, telegram_finished,
                    ai_delivered, process >>

EditBotToken(T) ==
    /\ process = "running"
    /\ \E t \in T : telegram_bot_token_input' = t
    /\ msgbox' = NoBox /\ event' = "edit" /\ UNCHANGED << env, call >> /\ remote' = NoRemote /\ ai_tags' = ai_tags
    /\ UNCHANGED << prompt_input, content_preview, ai_api_key_input,
                    group_id_input, ai_model_combo, generate_button, post_button,
                    status_label, target_display_label, tabs, ai_thread,
                    telegram_thread, ai_finished, telegram_finished,
                    ai_delivered, process >>

EditGroupId(T) ==
    /\ process = "running"
    /\ \E t \in T : group_id_input' = t
    /\ msgbox' = NoBox /\ event' = "edit" /\ UNCHANGED << env, call >> /\ remote' = NoRemote /\ ai_tags' = ai_tags
    /\ UNCHANGED << prompt_input, content_preview, ai_api_key_input,
                    telegram_bot_token_input, ai_model_combo, generate_button,
                    post_button, status_label, target_display_label, tabs,
                    ai_thread, telegram_thread, ai_finished, telegram_finished,
                    ai_delivered, process >>

SelectModel(T) ==
    /\ process = "running"
    /\ \E t \in T : t \in ModelItems /\ ai_model_combo' = t
    /\ msgbox' = NoBox /\ event' = "edit" /\ UNCHANGED << env, call >> /\ remote' = NoRemote /\ ai_tags' = ai_tags
    /\ UNCHANGED << prompt_input, content_preview, ai_api_key_input,
                    telegram_bot_token_input, group_id_input, generate_button,
                    post_button, status_label, target_display_label, tabs,
                    ai_thread, telegram_thread, ai_finished, telegram_finished,
                    ai_delivered, process >>

SelectTab ==
    /\ process = "running"
    /\ \E i \in {0, 1} : tabs' = i
    /\ msgbox' = NoBox /\ event' = "edit" /\ UNCHANGED << env, call >> /\ remote' = NoRemote /\ ai_tags' = ai_tags
    /\ UNCHANGED << prompt_input, content_preview, ai_api_key_input,
                    telegram_bot_token_input, group_id_input, ai_model_combo,
                    generate_button, post_button, status_label,
                    target_display_label, ai_thread, telegram_thread,
                    ai_finished, telegram_finished, ai_delivered, process >>

NextOver(Prompts, Previews, Keys, Tokens, Groups, Models, Sends) ==
    \/ ClickGenerate
    \/ ClickPost
    \/ ClickSaveSettings
    \/ AiWorker_run
    \/ TelegramWorker_run(Sends)
    \/ on_ai_content_generated
    \/ on_telegram_post_finished
    \/ EditPrompt(Prompts)
    \/ EditPreview(Previews)
    \/ EditApiKey(Keys)
    \/ EditBotToken(Tokens)
    \/ EditGroupId(Groups)
    \/ SelectModel(Models)
    \/ SelectTab

\* Spec: every setting may be missing or present, the preview is short
Init == InitOver({ << >> }, { << >> }, { << >> })

\* the outcomes of bot.send_message tried under Spec and SpecLen
SomeSendOutcomes == { "ok", "InvalidToken", "NetworkError" }

\* the combo items selected under Spec
SomeModels == { "gemini-pro", "gemini-1.5-flash-latest" }

Next == NextOver(PromptTexts, ShortTexts, ApiKeyTexts, BotTokenTexts, GroupIdTexts, SomeModels,
                 SomeSendOutcomes)

Spec == Init /\ [][Next]_vars

\* SpecLen: previews around the message length limit
LenKeys == { << " ", "k" >> }

LenPrompts == { << " ", "p", " " >> }

LenModels == { "gemini-pro" }

LenPreviews == LongTexts \cup { << >>, << " ", "h", "i", "\n" >> }

LenTokens == { << >>, << "t", " " >> }

LenGroups == { << " " >>, << " ", "-", "1" >> }

InitLen == InitOver(LenKeys, { << "t", " " >> }, { << " ", "-", "1" >> })

NextLen == NextOver(LenPrompts, LenPreviews, LenKeys, LenTokens, LenGroups, LenModels,
                    SomeSendOutcomes)

SpecLen == InitLen /\ [][NextLen]_vars

\* SpecStore: the settings across a restart of the process.  The window is
\* closed and the program started again: initUI and load_settings run anew
\* on the same environment.
Restart ==
    /\ env' = env
    /\ prompt_input' = DEFAULT_AI_PROMPT
    /\ content_preview' = << >>
    /\ ai_api_key_input' = load_settings(env).ai_api_key_input
    /\ telegram_bot_token_input' = load_settings(env).telegram_bot_token_input
    /\ group_id_input' = load_settings(env).group_id_input
    /\ ai_model_combo' = InitialModel
    /\ generate_button' = TRUE
    /\ post_button' = TRUE
    /\ status_label' = "Ready."
    /\ target_display_label' = TargetLabel(load_settings(env).group_id_input)
    /\ tabs' = 0
    /\ ai_thread' = NoAiThread
    /\ telegram_thread' = NoTelegramThread
    /\ ai_finished' = << >>
    /\ telegram_finished' = << >>
    /\ ai_delivered' = 0
    /\ msgbox' = NoBox
    /\ event' = "restart"
    /\ process' = "running"
    /\ remote' = NoRemote
    /\ ai_tags' = << >>
    /\ call' = call

InitStore == InitOver(ApiKeyTexts, BotTokenTexts, GroupIdTexts)

NextStore ==
    \/ EditApiKey(ApiKeyTexts)
    \/ EditBotToken(BotTokenTexts)
    \/ EditGroupId(GroupIdTexts)
    \/ SelectModel(ModelItems)
    \/ ClickSaveSettings
    \/ Restart

SpecStore == InitStore /\ [][NextStore]_vars

\* SpecClient: the publishing client called directly, as by the test block
\* of telegram_utils.py, on every combination of present and missing arguments
ClientTokens == { << >>, << "t" >>, << "b", "a", "d" >> }

ClientChats == { << >>, << "-", "1" >>, << "1", "2", "3" >> }

ClientMessages == { << >>, << "h", "e", "l", "l", "o" >>, << "<", "b", ">" >> }

GuiVars == << prompt_input, content_preview, ai_api_key_input,
              telegram_bot_token_input, group_id_input, ai_model_combo,
              generate_button, post_button, status_label, target_display_label,
              tabs, ai_thread, telegram_thread, ai_finished, telegram_finished,
              ai_delivered, msgbox, process, env, ai_tags >>

PrepareCall ==
    /\ call.state # "pending"
    /\ \E t \in ClientTokens, c \in ClientChats, m \in ClientMessages :
          call' = [state |-> "pending", bot_token |-> t, chat_id |-> c, message |-> m]
    /\ remote' = NoRemote
    /\ event' = "telegram_utils.__main__"
    /\ UNCHANGED GuiVars

CallClient ==
    /\ call.state = "pending"
    /\ \E o \in SendOutcomes :
          remote' = TelegramCall(call.bot_token, call.chat_id, call.message, o)
    /\ call' = [call EXCEPT !.state = "done"]
    /\ event' = "send_telegram_message_sync"
    /\ UNCHANGED GuiVars

NextClient == PrepareCall \/ CallClient

SpecClient == Init /\ [][NextClient]_vars

TypeOK ==
    /\ generate_button \in BOOLEAN /\ post_button \in BOOLEAN
    /\ tabs \in {0, 1}
    /\ ai_thread.state \in {"none", "running", "finished", "died"}
    /\ telegram_thread.state \in {"none", "running", "finished"}
    /\ process \in {"running", "aborted"}

----------------------------------------------------------------------------
(* Properties *)

\* a worker is in flight from its dispatch until its completion callback has run
AiInFlight == ai_thread.state = "running" \/ ai_finished # << >>

TelegramInFlight == telegram_thread.state = "running" \/ telegram_finished # << >>

\* the step is a generate request that started a worker
GenerateDispatched == event' = "generate_content" /\ msgbox' = NoBox

\* the step is a publish request that started a worker
PostDispatched == event' = "post_content" /\ (msgbox' = NoBox \/ msgbox'.reply = "Yes")

\* the step raised the length warning and the user answered `reply`
LengthWarningAnswered(reply) ==
    event' = "post_content" /\ msgbox'.title = "Content Too Long" /\ msgbox'.reply = reply

WorkersUnchanged ==
    /\ ai_thread' = ai_thread /\ telegram_thread' = telegram_thread
    /\ ai_finished' = ai_finished /\ telegram_finished' = telegram_finished

ButtonsUnchanged == generate_button' = generate_button /\ post_button' = post_button

\* C1: at most one background operation is in flight (never two generations,
\* never two publishes, never one of each); while one is in flight both
\* buttons are disabled and no generate or publish request dispatches.
C1_AtMostOneInFlight ==
    /\ [](/\ ~(AiInFlight /\ TelegramInFlight)
          /\ Len(ai_finished) + (IF ai_thread.state = "running" THEN 1 ELSE 0) <= 1
          /\ Len(telegram_finished) + (IF telegram_thread.state = "running" THEN 1 ELSE 0) <= 1
          /\ (AiInFlight \/ TelegramInFlight) => (~generate_button /\ ~post_button))
    /\ [][(AiInFlight \/ TelegramInFlight) => ~(GenerateDispatched \/ PostDispatched)]_vars

\* a publish is in flight after a generation has completed
C1_Witness ==
    /\ telegram_thread.state = "running" /\ ai_thread.state = "finished"
    /\ ~generate_button /\ ~post_button

\* C2: every dispatched generation delivers exactly one result to
\* on_ai_content_generated: never two, and once the worker has stopped and
\* nothing is queued, one has been delivered.
C2_ExactlyOneResult ==
    /\ ai_delivered + Len(ai_finished) <= 1
    /\ (ai_thread.state \in {"finished", "died"} /\ ai_finished = << >>) => ai_delivered = 1

\* C3: whenever the triggers are disabled, a worker is still running or its
\* result is queued for the foreground, and the process is alive to deliver it.
C3_NeverStuck ==
    (~generate_button \/ ~post_button) =>
        /\ process = "running"
        /\ AiInFlight \/ TelegramInFlight

\* C4: a generate request with a blank prompt or a blank API key starts no
\* worker, leaves the workers, the status and the buttons as they were, and
\* warns about the prompt, or else about the API key.
C4_GenerateRejectedLocally ==
    [][(event' = "generate_content" /\ (IsBlank(prompt_input) \/ IsBlank(ai_api_key_input)))
        => /\ WorkersUnchanged
           /\ ButtonsUnchanged
           /\ status_label' = status_label
           /\ ai_delivered' = ai_delivered
           /\ msgbox'.icon = "warning"
           /\ msgbox'.text = IF IsBlank(prompt_input)
                             THEN "Please enter a prompt for the AI."
                             ELSE "Please enter your Google Gemini API Key in the Settings tab."]_vars

\* a request with a whitespace-only API key was rejected
C4_Witness ==
    /\ event = "generate_content"
    /\ ~IsBlank(prompt_input) /\ ai_api_key_input = << " " >>
    /\ msgbox.text = "Please enter your Google Gemini API Key in the Settings tab."
    /\ ai_thread.state = "none"

\* C5: a publish request with a blank preview, group id or bot token starts
\* no worker, leaves the workers, the status and the buttons as they were,
\* and warns about the first missing item; a blank group id with content
\* present yields the message naming the Group ID.
C5_PostRejectedLocally ==
    [][(event' = "post_content"
          /\ (IsBlank(content_preview) \/ IsBlank(group_id_input) \/ IsBlank(telegram_bot_token_input)))
        => /\ WorkersUnchanged
           /\ ButtonsUnchanged
           /\ status_label' = status_label
           /\ msgbox'.icon = "warning"
           /\ msgbox'.text =
                IF IsBlank(content_preview)
                THEN "No content to post. Please generate or type content."
                ELSE IF IsBlank(group_id_input)
                THEN "Please enter the Telegram Group ID in the Settings tab."
                ELSE "Please enter your Telegram Bot Token in the Settings tab."]_vars

\* content present, bot token present, group id whitespace only: rejected
C5_Witness ==
    /\ event = "post_content"
    /\ ~IsBlank(content_preview) /\ ~IsBlank(telegram_bot_token_input)
    /\ group_id_input = << " " >>
    /\ msgbox.text = "Please enter the Telegram Group ID in the Settings tab."
    /\ telegram_thread.state = "none"

\* C6: a running publish worker holds a non-empty bot token, a non-empty
\* chat id and a non-empty message of at most 4096 characters.
C6_DispatchedRequestValid ==
    telegram_thread.state = "running" =>
        /\ telegram_thread.bot_token # << >>
        /\ telegram_thread.chat_id # << >>
        /\ telegram_thread.message # << >>
        /\ Len(telegram_thread.message) <= 4096

\* a worker was dispatched with a cut message while the preview is longer
C6_Witness ==
    /\ telegram_thread.state = "running"
    /\ Len(telegram_thread.message) = 4096
    /\ Len(content_preview) > 4096

\* C7 as stated: declining the length warning leaves the workers, the
\* buttons, the preview and the operation state (the status) unchanged.
C7_DeclineChangesNothing ==
    [][(LengthWarningAnswered("No") /\ Len(strip(content_preview)) > 4096)
        => /\ WorkersUnchanged
           /\ ButtonsUnchanged
           /\ content_preview' = content_preview
           /\ status_label' = status_label]_vars

\* C7 amended: declining the length warning dispatches nothing and leaves
\* the workers, the buttons and the preview unchanged; the status becomes
\* "Posting cancelled due to message length."
C7_DeclineKeepsAllButStatus ==
    [][(LengthWarningAnswered("No") /\ Len(strip(content_preview)) > 4096)
        => /\ WorkersUnchanged
           /\ ButtonsUnchanged
           /\ content_preview' = content_preview
           /\ status_label' = "Posting cancelled due to message length."]_vars

\* the warning was declined for a preview of more than 4096 characters
C7_Witness ==
    /\ event = "post_content"
    /\ msgbox.title = "Content Too Long" /\ msgbox.reply = "No"
    /\ Len(strip(content_preview)) > 4096
    /\ generate_button /\ post_button
    /\ telegram_thread.state # "running"

\* C8: accepting the length warning dispatches a publish worker whose message
\* is character for character the first 4096 characters of the trimmed content.
C8_AcceptSendsFirst4096 ==
    [][(LengthWarningAnswered("Yes") /\ Len(strip(content_preview)) > 4096)
        => LET C == strip(content_preview)
           IN  /\ telegram_thread'.state = "running"
               /\ Len(telegram_thread'.message) = 4096
               /\ \A i \in 1..4096 : telegram_thread'.message[i] = C[i]]_vars

\* the warning was accepted and a cut message is on its way
C8_Witness ==
    /\ event = "post_content"
    /\ msgbox.title = "Content Too Long" /\ msgbox.reply = "Yes"
    /\ telegram_thread.state = "running"
    /\ Len(telegram_thread.message) = 4096
    /\ telegram_thread.message # strip(content_preview)

\* C9: a publish request that passes validation raises the length warning if
\* and only if the trimmed content is longer than 4096; at 4096 or less it is
\* dispatched unmodified without a warning, and no longer content is ever
\* dispatched without the warning having been answered.
C9_WarningIffOver4096 ==
    [][(event' = "post_content"
          /\ ~IsBlank(content_preview) /\ ~IsBlank(group_id_input)
          /\ ~IsBlank(telegram_bot_token_input))
        => /\ (msgbox'.title = "Content Too Long") <=> (Len(strip(content_preview)) > 4096)
           /\ Len(strip(content_preview)) <= 4096 =>
                /\ msgbox' = NoBox
                /\ telegram_thread'.state = "running"
                /\ telegram_thread'.message = strip(content_preview)]_vars

\* content of exactly 4096 characters went out whole and unprompted
C9_Witness ==
    /\ event = "post_content"
    /\ msgbox = NoBox
    /\ telegram_thread.state = "running"
    /\ Len(telegram_thread.message) = 4096
    /\ telegram_thread.message = strip(content_preview)

\* C10: the completion callback of a successful publish leaves the preview
\* empty and the status at "Content posted successfully!" (Done).
C10_SuccessClearsPreview ==
    [][(event' = "on_telegram_post_finished"
          /\ telegram_finished # << >> /\ Head(telegram_finished)[1])
        => /\ content_preview' = << >>
           /\ status_label' = "Content posted successfully!"
           /\ msgbox'.title = "Success"]_vars

\* a successful publish has just been reported
C10_Witness ==
    /\ event = "on_telegram_post_finished"
    /\ msgbox.title = "Success"
    /\ status_label = "Content posted successfully!"
    /\ content_preview = << >>
    /\ generate_button /\ post_button

\* the step is the end of a publish worker whose send failed
PublishFailed == event' = "TelegramWorker.run" /\ ~remote'.ok

\* the step is the completion callback of a failed publish
PublishFailureShown == event' = "on_telegram_post_finished" /\ msgbox'.icon = "critical"

\* a publish worker starts in this step
TelegramStarted == telegram_thread'.state = "running" /\ telegram_thread.state # "running"

\* C11 (as stated): when a publish fails, the result delivered to the
\* foreground carries the category and detail of the actual failure, i.e. the
\* description the client produced for it.
C11_FailureCategoryDelivered ==
    [][PublishFailed =>
          telegram_finished'[Len(telegram_finished')] = << FALSE, remote'.printed >>]_vars

\* C11 (amended): when a publish fails, the result delivered to the foreground
\* is (False, "Failed to post content to Telegram. Check console for details.")
\* whatever the cause; the description that names the cause is printed by the
\* client only; the callback shows a "Posting Error" dialog with the fixed
\* text and starts no worker; a publish worker is started by a publish
\* request only, never automatically.
C11_FailureDeliveredWithoutCategory ==
    [][/\ PublishFailed =>
             /\ telegram_finished' = Append(telegram_finished, << FALSE, FailedToPost >>)
             /\ remote'.printed # FailedToPost
       /\ PublishFailureShown =>
             /\ msgbox' = Box("critical", "Posting Error", FailedToPost)
             /\ status_label' = "Error posting: {message}"
             /\ telegram_thread' = telegram_thread /\ ai_thread' = ai_thread
       /\ TelegramStarted => event' = "post_content"]_vars

\* a publish rejected for its token has been shown to the user
C11_Witness ==
    /\ event = "on_telegram_post_finished"
    /\ msgbox = Box("critical", "Posting Error", FailedToPost)
    /\ status_label = "Error posting: {message}"
    /\ telegram_thread.state = "finished"

\* the step is a direct call of the publishing client
ClientCalled == event' = "send_telegram_message_sync"

\* what kind of failure an outcome of bot.send_message is: the service
\* rejected the token (HTTP 401, InvalidToken), the transport failed, the
\* service answered with another error (bad chat id, no permission, ...), or
\* something unexpected was raised
Cause(o) ==
    CASE o \in { "HTTPStatusError401", "InvalidToken" } -> "auth"
      [] o = "NetworkError" -> "transport"
      [] o \in { "HTTPStatusError", "BadRequest", "TelegramError" } -> "api"
      [] OTHER -> "unexpected"

\* the category the ordered rules give to a failure
RuleCategory(o) ==
    IF Cause(o) = "auth" THEN "Unauthorized"
    ELSE IF Cause(o) = "transport" THEN "Network"
    ELSE IF Cause(o) = "api" THEN "ProtocolError"
    ELSE "Unknown"

\* the category that the description printed by the client names
PrintedCategory(printed) ==
    CASE printed = "Error: Invalid Telegram Bot Token. Status 401 Unauthorized. Error: {e}"
             -> "Unauthorized"
      [] printed = "Network Error: Could not connect to Telegram API. Check your internet connection or bot token. Error: {e}"
             -> "Network"
      [] printed \in { "HTTP Status Error: {e.response.status_code} - {e.response.text}. Error: {e}",
                       "Telegram API Error: {e}. Ensure the bot has permissions in the group/channel and the chat ID is correct." }
             -> "ProtocolError"
      [] OTHER -> "Unknown"

\* C12: a failed send is classified by the first matching rule: an auth
\* rejection is Unauthorized, otherwise a transport failure is Network,
\* otherwise another API-level error is ProtocolError, otherwise Unknown;
\* every failure gets one category and the call returns False, raising nothing.
C12_ClassifiedByFirstMatch ==
    [][(ClientCalled /\ remote'.network /\ remote'.outcome # "ok") =>
          /\ ~remote'.ok
          /\ PrintedCategory(remote'.printed) = RuleCategory(remote'.outcome)]_vars

\* C13: the publishing client called with an empty bot token, an empty chat id
\* or an empty message returns a failure without calling the messaging
\* service; it returns success only when the send call was made and returned
\* without error.
C13_FailsFastOnEmpty ==
    [][ClientCalled =>
          /\ (call.bot_token = << >> \/ call.chat_id = << >> \/ call.message = << >>) =>
                 (~remote'.ok /\ ~remote'.network)
          /\ remote'.ok => (remote'.network /\ remote'.outcome = "ok")
          /\ remote'.args = << call.bot_token, call.chat_id, call.message >>]_vars

\* the client has been called with a token and a chat id but an empty message
C13_Witness ==
    /\ event = "send_telegram_message_sync"
    /\ call.state = "done"
    /\ call.bot_token # << >> /\ call.chat_id # << >> /\ call.message = << >>
    /\ ~remote.ok /\ ~remote.network
    /\ remote.printed = "Message content is empty."

\* C14: what a background call sends are the values captured at dispatch:
\* the dispatch stores the (trimmed) field values of that moment in the
\* worker, no step taken while the worker runs (edits of the prompt, the
\* settings fields or the preview included) changes them, and the worker's
\* call to the remote service is made with exactly the stored values.
C14_SendsValuesCapturedAtDispatch ==
    [][/\ GenerateDispatched =>
             ai_thread' = AiWorker(strip(prompt_input), strip(ai_api_key_input),
                                   ai_model_combo)
       /\ PostDispatched =>
             /\ telegram_thread'.state = "running"
             /\ telegram_thread'.bot_token = strip(telegram_bot_token_input)
             /\ telegram_thread'.chat_id = strip(group_id_input)
             /\ telegram_thread'.message =
                    SubSeq(strip(content_preview), 1, Len(telegram_thread'.message))
       /\ (ai_thread.state = "running" /\ event' # "AiWorker.run") => ai_thread' = ai_thread
       /\ (telegram_thread.state = "running" /\ event' # "TelegramWorker.run") =>
             telegram_thread' = telegram_thread
       /\ event' = "AiWorker.run" =>
             remote'.args = << ai_thread.prompt, ai_thread.api_key, ai_thread.model >>
       /\ event' = "TelegramWorker.run" =>
             remote'.args = << telegram_thread.bot_token, telegram_thread.chat_id,
                               telegram_thread.message >>]_vars

\* a generation has been sent with the prompt and key of its dispatch although
\* the user has changed both fields while it was in flight
C14_Witness ==
    /\ event = "AiWorker.run"
    /\ remote.service = "generate_ai_content"
    /\ remote.args[1] # strip(prompt_input)
    /\ remote.args[2] # strip(ai_api_key_input)
    /\ remote.args[1] = DEFAULT_AI_PROMPT

\* the step is the completion callback of a generation
GenerationDelivered == event' = "on_ai_content_generated"

\* C15: after a generation the core decides between ReadyToReview and Failed
\* by the tag of the result, never by its text: an Ok result raises no error
\* dialog even if its text contains "Error:", and a Failed result raises the
\* error dialog even if its reason does not contain "Error:".
C15_DecidedByTag ==
    [][GenerationDelivered =>
          /\ Head(ai_tags) = "Ok" => msgbox' = NoBox
          /\ Head(ai_tags) = "Failed" => msgbox'.title = "AI Generation Error"]_vars

Generating == "Generating AI content... Please wait."

Publishing == "Posting to Telegram... Please wait."

\* C16 (as stated): a publish worker is dispatched only after a generation
\* has completed, never directly from the idle state the program starts in.
C16_PublishOnlyAfterGeneration ==
    [][PostDispatched => (ai_thread.state = "finished" /\ ai_finished = << >>)]_vars

\* C16 (amended): a publish worker is dispatched by a publish request from
\* any state in which no worker is in flight, the initial idle state included
\* (the preview is editable, so its content need not come from a generation);
\* the display states follow the order otherwise: Generating is entered by a
\* generate dispatch only and Publishing by a publish dispatch only, the
\* review and generation-error displays are entered from Generating only, and
\* the posted and posting-error displays from Publishing only.
C16_DisplayStatesInOrder ==
    [][/\ PostDispatched =>
             /\ ~AiInFlight /\ ~TelegramInFlight
             /\ ai_thread.state \in { "none", "finished" }
             /\ status_label' = Publishing
       /\ (status_label' = Generating /\ status_label # Generating) => GenerateDispatched
       /\ (status_label' = Publishing /\ status_label # Publishing) => PostDispatched
       /\ (GenerationDelivered \/ msgbox'.title = "AI Generation Error") =>
             (status_label = Generating /\ GenerationDelivered)
       /\ (event' = "on_telegram_post_finished" \/ msgbox'.title \in { "Posting Error", "Success" }) =>
             (status_label = Publishing /\ event' = "on_telegram_post_finished")]_vars

\* a publish worker runs although no generation was ever dispatched
C16_Witness ==
    /\ telegram_thread.state = "running"
    /\ ai_thread.state = "none"
    /\ status_label = Publishing
    /\ event = "post_content"

\* C17: the failure and success displays are not terminal: in every state
\* reached by a completion callback (generation delivered, with or without
\* the error dialog; publish failed; publish succeeded) the generate button
\* and the post button are both enabled and the program runs, so a generate
\* request and a publish request are both accepted again.
C17_CallbacksEnableBothTriggers ==
    event \in { "on_ai_content_generated", "on_telegram_post_finished" } =>
        (generate_button /\ post_button /\ process = "running"
         /\ ~AiInFlight /\ ~TelegramInFlight)

\* a failed generation has been delivered and both triggers are enabled
C17_Witness ==
    /\ event = "on_ai_content_generated"
    /\ msgbox.title = "AI Generation Error"
    /\ generate_button /\ post_button

\* the four settings as the fields of the settings tab hold them
SettingsFields == << ai_api_key_input, telegram_bot_token_input, group_id_input,
                     ai_model_combo >>

\* the step is a click on "Save Settings"
SettingsSaved == event' = "save_settings"

\* C18 (as stated): a dispatched publish uses the channel id as of the last
\* load or save, which is the one the target label shows; a value typed into
\* the field but not saved is not used.
C18_DispatchUsesSavedSettings ==
    [][PostDispatched =>
          target_display_label = << "Configured Group/Channel: " >> \o telegram_thread'.chat_id]_vars

\* C18 (amended): a dispatched generation or publish uses the trimmed content
\* that the settings fields have at the moment of the dispatch, saved or not;
\* the save action changes none of the four settings, it only shows the
\* current channel id in the target label, and no other step changes that
\* label.
C18_DispatchUsesCurrentFields ==
    [][/\ GenerateDispatched =>
             /\ ai_thread'.api_key = strip(ai_api_key_input)
             /\ ai_thread'.model = ai_model_combo
       /\ PostDispatched =>
             /\ telegram_thread'.bot_token = strip(telegram_bot_token_input)
             /\ telegram_thread'.chat_id = strip(group_id_input)
       /\ SettingsSaved =>
             /\ SettingsFields' = SettingsFields
             /\ target_display_label' = TargetLabel(group_id_input)
             /\ WorkersUnchanged
       /\ ~SettingsSaved => target_display_label' = target_display_label]_vars

\* a publish worker runs with a channel id that was typed but never saved:
\* the target label still shows another one
C18_Witness ==
    /\ telegram_thread.state = "running"
    /\ telegram_thread.chat_id # << >>
    /\ target_display_label # << "Configured Group/Channel: " >> \o telegram_thread.chat_id

\* the step starts the program again
Restarted == event' = "restart"

\* C19 (as stated): save followed by load, as at the next start of the
\* program, yields the four settings that were saved (compared trimmed), for
\* every combination of them.
C19_LoadYieldsSaved ==
    [][(event = "save_settings" /\ Restarted) =>
          /\ strip(ai_api_key_input') = strip(ai_api_key_input)
          /\ strip(telegram_bot_token_input') = strip(telegram_bot_token_input)
          /\ strip(group_id_input') = strip(group_id_input)
          /\ ai_model_combo' = ai_model_combo]_vars

\* C19 (amended): save writes nothing: no step changes the environment the
\* settings are loaded from, and the load at the next start yields the API
\* key, bot token and channel id of the environment and the first model of
\* the list, whatever was in the fields when save was clicked.
C19_LoadYieldsEnvironment ==
    [][/\ env' = env
       /\ Restarted =>
             /\ ai_api_key_input' = env.GEMINI_API_KEY
             /\ telegram_bot_token_input' = env.TELEGRAM_BOT_TOKEN
             /\ group_id_input' = env.TELEGRAM_GROUP_ID
             /\ ai_model_combo' = "gemini-pro"
             /\ target_display_label' = TargetLabel(env.TELEGRAM_GROUP_ID)]_vars

\* the program has been started again and shows the environment's settings
C19_Witness ==
    /\ event = "restart"
    /\ env.GEMINI_API_KEY = << " ", "k" >> /\ ai_api_key_input = << " ", "k" >>
    /\ env.TELEGRAM_BOT_TOKEN = << >> /\ telegram_bot_token_input = << >>
    /\ env.TELEGRAM_GROUP_ID = << " ", "-", "1" >> /\ group_id_input = << " ", "-", "1" >>
    /\ ai_model_combo = "gemini-pro"

\* a worker was dispatched and its completion callback has not run: it still
\* runs, its result waits in the event queue, or it ended without a result
CallbackOutstanding ==
    AiInFlight \/ TelegramInFlight \/ ai_thread.state = "died"

\* C20: in every reachable state the generate button and the post button are
\* both enabled or both disabled, and they are disabled exactly when a worker
\* has been dispatched whose completion callback has not yet run.
C20_ButtonsDisabledIffOutstanding ==
    /\ generate_button = post_button
    /\ ~generate_button <=> CallbackOutstanding

\* a publish worker has ended and its result waits for the callback: both
\* buttons are still disabled
C20_Witness ==
    /\ telegram_thread.state = "finished"
    /\ telegram_finished # << >>
    /\ ~generate_button /\ ~post_button

\* C21: when a generation completes, the preview is set to the delivered
\* result text whatever the outcome, replacing what the user had typed; after
\* a failed generation the preview holds the error text, and a publish request
\* that follows with a channel id and a bot token dispatches that text.
C21_PreviewIsDeliveredText ==
    [][/\ GenerationDelivered => content_preview' = Head(ai_finished)
       /\ (/\ event = "on_ai_content_generated" /\ event' = "post_content"
           /\ ~IsBlank(content_preview)
           /\ ~IsBlank(telegram_bot_token_input) /\ ~IsBlank(group_id_input)) =>
              /\ PostDispatched
              /\ telegram_thread'.message = strip(content_preview)]_vars

\* the step is the completion callback of a successful publish
PublishSuccessShown == event' = "on_telegram_post_finished" /\ msgbox'.title = "Success"

\* C22: the preview is changed only by a user edit, by a generation
\* completion and by a successful publish completion: a publish request
\* (rejected, declined, or dispatched, with or without truncation) and a failed
\* publish completion leave it as it was, so after a truncated publish has
\* failed the preview still holds the full content.
C22_PreviewChangedOnlyByEditGenerationSuccess ==
    [][/\ event' = "post_content" => content_preview' = content_preview
       /\ LengthWarningAnswered("Yes") =>
             /\ Len(telegram_thread'.message) = 4096
             /\ Len(content_preview') > 4096
       /\ PublishFailureShown => content_preview' = content_preview
       /\ (~(event' = "edit" \/ GenerationDelivered \/ PublishSuccessShown)) =>
             content_preview' = content_preview]_vars

\* a publish has failed and the preview still holds more than 4096 characters
C22_Witness ==
    /\ event = "on_telegram_post_finished"
    /\ msgbox.title = "Posting Error"
    /\ Len(content_preview) > 4096
    /\ generate_button /\ post_button

====
